---- MODULE Spec2Model ----
(***************************************************************************)
(* A model of xhs-likes-manager: the JSON store (utils.py), the keyword    *)
(* classifier (tagger.py), the fetch-and-merge pass (browser.py /          *)
(* fetcher.py), the interactive review session (reviewer.py), the paper    *)
(* extraction pass (paper_extractor.py) and unlike_post (browser.py /      *)
(* unlike.py).                                                             *)
(*                                                                         *)
(* Python strings are modelled as sequences of one-character strings, so   *)
(* that lower(), strip(), split() and the substring test are computed and  *)
(* not assumed.  A character outside ASCII is written by its code point    *)
(* ("u5176" is U+5176).  Timestamps are minutes of a clock; None is 0.     *)
(* Lists that the code only uses as sets (tags, reviewed_ids) are sets.    *)
(***************************************************************************)
EXTENDS Integers, Sequences, FiniteSets, TLC

VARIABLES
    likes_file,     \* config.likes_file: [exists, text] (text = JSON tokens)
    state_file,     \* config.review_state_file: [exists, state]
    tag_rules,      \* config.tag_rules, an ordered list of [name, keywords]
    clock,          \* the wall clock read by now_cn()
    command,        \* the command run last ("config": config.yaml was edited)
    steps,          \* how many commands and prompts have run so far
    notes,          \* fetch_likes: the deduplicated capture of the last pass
    new,            \* fetch_likes: the count _process_notes returned
    item_id,        \* tag_item, unlike_post: the argument item_id of the last call
    printed,        \* tag_item, unlike_post: what the last call printed when it
                    \* returned ("none" when it raised)
    calls,          \* extract_papers: the search_arxiv calls of the last run, in
                    \* order, each with its item, its title and the time slept
                    \* since the run began
    pc,             \* "idle", "review" (inside the review loop), "saving"
    state,          \* review: the in-memory session state
    data,           \* review: the in-memory collection
    reviewed,       \* review: the in-memory reviewed set
    items,          \* review: the eligible list, as indices into data.items
    pos,            \* review: the position in the eligible list
    cmd,            \* review: the command read last (after strip().lower())
    skipped,        \* review: history, the items passed with skip in the last
                    \* session that read a line, each with that session's mode
                    \* and its tags then
    save_prev,      \* save_db: the file as it was when the write began
    save_data,      \* save_db: the dict being written
    title,          \* auto_tag: argument title
    text,           \* auto_tag: argument text
    tags_out        \* auto_tag: the returned list

vars == <<likes_file, state_file, tag_rules, clock, command, steps, notes, new, item_id,
          printed, calls, pc,
          state, data, reviewed, items, pos, cmd, skipped, save_prev, save_data, title,
          text, tags_out>>

-----------------------------------------------------------------------------
(* Bounds of the model *)

MaxStr == 2         \* longest title / text drawn for the classifier
MaxRaw == 2         \* most raw records in one capture
MaxClock == 2       \* last minute of the clock
MaxRules == 2       \* longest rule list drawn for the classifier
MaxSessionSteps == 3 \* most calls of review and lines that do not answer, where
                    \* the answers are not counted
MaxSteps == 4       \* most commands and prompts in one run of the model

-----------------------------------------------------------------------------
(* Strings *)

Range(s) == {s[i] : i \in 1..Len(s)}

RECURSIVE SeqsUpTo(_, _)
SeqsUpTo(S, n) ==
    IF n = 0 THEN {<<>>}
    ELSE LET shorter == SeqsUpTo(S, n - 1)
         IN  shorter \cup {Append(s, x) : s \in {t \in shorter : Len(t) = n - 1}, x \in S}

\* str.lower() on one character
LowerChar(c) ==
    CASE c = "A" -> "a" [] c = "B" -> "b" [] c = "F" -> "f" [] c = "I" -> "i"
      [] c = "K" -> "k" [] c = "L" -> "l" [] c = "M" -> "m" [] c = "O" -> "o"
      [] c = "R" -> "r" [] c = "T" -> "t" [] c = "X" -> "x" [] c = "Y" -> "y"
      [] OTHER -> c

\* str.lower()
Lower(s) == [i \in 1..Len(s) |-> LowerChar(s[i])]

\* the Python test  kw in s
Contains(s, kw) ==
    \E i \in 0..(Len(s) - Len(kw)) : SubSeq(s, i + 1, i + Len(kw)) = kw

-----------------------------------------------------------------------------
(* tagger.py: auto_tag *)

AI_LLM == <<"A", "I", "/", "L", "L", "M">>          \* "AI/LLM"
CODING == <<"u7F16", "u7A0B">>                      \* the rule named U+7F16 U+7A0B
FALLBACK == <<"u5176", "u4ED6">>                    \* the tag U+5176 U+4ED6

\* combined = (title + " " + text).lower()
Combined(t, x) == Lower(t \o <<" ">> \o x)

\* for kw in rule["keywords"]: if kw.lower() in combined
RuleMatches(rule, combined) ==
    \E kw \in rule.keywords : Contains(combined, Lower(kw))

\* the for loop of auto_tag: the names of the matching rules, in rule order
RECURSIVE MatchedNames(_, _)
MatchedNames(rules, combined) ==
    IF rules = <<>> THEN <<>>
    ELSE (IF RuleMatches(Head(rules), combined) THEN <<Head(rules).name>> ELSE <<>>)
         \o MatchedNames(Tail(rules), combined)

\* a faulty variant of auto_tag: the title and the text are joined without the space
auto_tag_nospace(t, x, rules) ==
    LET tags == MatchedNames(rules, Lower(t \o x))
    IN  IF tags # <<>> THEN tags ELSE <<FALLBACK>>

\* a faulty variant of auto_tag: only the first matching rule contributes
auto_tag_first(t, x, rules) ==
    LET tags == MatchedNames(rules, Combined(t, x))
    IN  IF tags # <<>> THEN <<Head(tags)>> ELSE <<FALLBACK>>

\* a faulty variant of auto_tag: no fallback tag
auto_tag_nofallback(t, x, rules) == MatchedNames(rules, Combined(t, x))

auto_tag(t, x, rules) ==
    LET tags == MatchedNames(rules, Combined(t, x))
    IN  IF tags # <<>> THEN tags ELSE <<FALLBACK>>

-----------------------------------------------------------------------------
(* utils.py: the JSON store *)

NoTime == 0     \* None, where a timestamp is expected

\* now_cn(): the clock, at minute resolution
now_cn == clock

EmptyDb == [items |-> <<>>, last_fetch |-> NoTime]

\* json.dumps(data): the text, as a sequence of tokens
Dumps(db) ==
    <<[open |-> TRUE]>>
    \o [i \in 1..Len(db.items) |-> [item |-> db.items[i]]]
    \o <<[last_fetch |-> db.last_fetch], [close |-> TRUE]>>

\* whether json.loads(text) returns (it raises on any proper prefix of a document)
WellFormed(txt) ==
    /\ Len(txt) >= 3
    /\ DOMAIN txt[1] = {"open"}
    /\ DOMAIN txt[Len(txt)] = {"close"}
    /\ DOMAIN txt[Len(txt) - 1] = {"last_fetch"}
    /\ \A i \in 2..(Len(txt) - 2) : DOMAIN txt[i] = {"item"}

\* json.loads(text), for a text it accepts
Loads(txt) ==
    [items |-> [i \in 1..(Len(txt) - 3) |-> txt[i + 1].item],
     last_fetch |-> txt[Len(txt) - 1].last_fetch]

NoFile == [exists |-> FALSE, text |-> <<>>]

\* whether load_db(path) returns: the file is missing, or holds a document
CanLoad(file) == ~file.exists \/ WellFormed(file.text)

\* load_db(path), where it returns
load_db(file) == IF file.exists THEN Loads(file.text) ELSE EmptyDb

\* save_db(path, data) run to completion: the file holds the whole new text
save_db(db) == [exists |-> TRUE, text |-> Dumps(db)]

\* the ids of a collection, in order
IdsOf(db) == [i \in 1..Len(db.items) |-> db.items[i].id]

-----------------------------------------------------------------------------
(* browser.py / fetcher.py: the merge pass *)

\* f"\u7b14\u8bb0 {nid[:8]}"
Placeholder(nid) ==
    <<"u7B14", "u8BB0", " ">> \o SubSeq(nid, 1, IF Len(nid) < 8 THEN Len(nid) ELSE 8)

\* a faulty variant of DisplayTitle: no placeholder stands in for a missing title
DisplayTitle_noplaceholder(note) ==
    IF note.display_title # <<>> THEN note.display_title ELSE note.title

\* note.get("display_title", "") or note.get("title", "") or the placeholder
DisplayTitle(note) ==
    IF note.display_title # <<>> THEN note.display_title
    ELSE IF note.title # <<>> THEN note.title
    ELSE Placeholder(note.note_id)

\* the dict _process_notes builds for a new note (url, cover, type, author_id
\* and xsec_token are copied from the note like author and are left out)
NewItem(note, timestamp) ==
    [id |-> note.note_id,
     title |-> DisplayTitle(note),
     author |-> note.nickname,
     tags |-> {},
     desc |-> <<>>,
     note |-> <<>>,
     reviewed |-> FALSE,
     removed |-> FALSE,
     removed_at |-> NoTime,
     first_seen |-> timestamp,
     saved_at |-> timestamp,
     papers_extracted |-> FALSE,
     paper_status |-> "absent",
     arxiv_ids |-> {}]

\* the loop of _fetch_by_tab under "# Deduplicate", from a given seen set
RECURSIVE DedupFrom(_, _)
DedupFrom(all_notes, seen) ==
    IF all_notes = <<>> THEN <<>>
    ELSE LET note == Head(all_notes)
             nid == note.note_id
         IN  IF nid # <<>> /\ nid \notin seen
             THEN <<note>> \o DedupFrom(Tail(all_notes), seen \cup {nid})
             ELSE DedupFrom(Tail(all_notes), seen)

\* a faulty variant of Deduplicate: every captured record is kept
Deduplicate_keepall(all_notes) == all_notes

\* a faulty variant of Deduplicate: of the records with one id the last is kept
RECURSIVE Deduplicate_last(_)
Deduplicate_last(all_notes) ==
    IF all_notes = <<>> THEN <<>>
    ELSE LET note == Head(all_notes)
             rest == Tail(all_notes)
         IN  IF /\ note.note_id # <<>>
                /\ \A j \in 1..Len(rest) : rest[j].note_id # note.note_id
             THEN <<note>> \o Deduplicate_last(rest)
             ELSE Deduplicate_last(rest)

\* what _fetch_by_tab returns for the records it captured
Deduplicate(all_notes) == DedupFrom(all_notes, {})

\* a faulty variant of _process_notes: a note whose id is present is appended again
process_notes_readd(db, ns, timestamp) ==
    [db |-> [items |-> db.items \o [i \in 1..Len(ns) |-> NewItem(ns[i], timestamp)],
             last_fetch |-> timestamp],
     new_count |-> Len(ns)]

\* a faulty variant of _process_notes: an item whose id is in the capture takes
\* the title of the captured record
process_notes_update(db, ns, timestamp) ==
    LET existing_ids == Range(IdsOf(db))
        fresh == SelectSeq(ns, LAMBDA note : note.note_id \notin existing_ids)
        updated == [i \in 1..Len(db.items) |->
                      IF \E k \in 1..Len(ns) : ns[k].note_id = db.items[i].id
                      THEN [db.items[i] EXCEPT !.title =
                              DisplayTitle(ns[CHOOSE k \in 1..Len(ns) :
                                                ns[k].note_id = db.items[i].id])]
                      ELSE db.items[i]]
    IN  [db |-> [items |-> updated \o [i \in 1..Len(fresh) |-> NewItem(fresh[i], timestamp)],
                 last_fetch |-> timestamp],
         new_count |-> Len(fresh)]

\* a faulty variant of _process_notes: last_fetch is set only when an item was
\* appended
process_notes_stale_fetch(db, ns, timestamp) ==
    LET existing_ids == Range(IdsOf(db))
        fresh == SelectSeq(ns, LAMBDA note : note.note_id \notin existing_ids)
    IN  [db |-> [items |-> db.items \o [i \in 1..Len(fresh) |-> NewItem(fresh[i], timestamp)],
                 last_fetch |-> IF fresh = <<>> THEN db.last_fetch ELSE timestamp],
         new_count |-> Len(fresh)]

\* a faulty variant of _process_notes: the count returned is that of the
\* records of the capture
process_notes_count_all(db, ns, timestamp) ==
    LET existing_ids == Range(IdsOf(db))
        fresh == SelectSeq(ns, LAMBDA note : note.note_id \notin existing_ids)
    IN  [db |-> [items |-> db.items \o [i \in 1..Len(fresh) |-> NewItem(fresh[i], timestamp)],
                 last_fetch |-> timestamp],
         new_count |-> Len(ns)]

\* _process_notes: the merged collection and the count returned; existing_ids
\* is computed once, before the loop
process_notes(db, ns, timestamp) ==
    LET existing_ids == Range(IdsOf(db))
        fresh == SelectSeq(ns, LAMBDA note : note.note_id \notin existing_ids)
    IN  [db |-> [items |-> db.items \o [i \in 1..Len(fresh) |-> NewItem(fresh[i], timestamp)],
                 last_fetch |-> timestamp],
         new_count |-> Len(fresh)]

-----------------------------------------------------------------------------
(* tagger.py: tag_all, tag_item *)

\* a faulty variant of tag_all: every item is classified again
tag_all_retag(db, rules) ==
    [db EXCEPT !.items =
        [i \in 1..Len(db.items) |->
            [db.items[i] EXCEPT !.tags =
                Range(auto_tag(db.items[i].title, db.items[i].desc, rules))]]]

\* the loop of tag_all: an item with no tags gets the classifier's tags
tag_all(db, rules) ==
    [db EXCEPT !.items =
        [i \in 1..Len(db.items) |->
            IF db.items[i].tags = {}
            THEN [db.items[i] EXCEPT !.tags =
                    Range(auto_tag(db.items[i].title, db.items[i].desc, rules))]
            ELSE db.items[i]]]

\* a faulty variant of IndexOf: an id that is absent gives the last item
IndexOf_last(db, id) ==
    IF \E i \in 1..Len(db.items) : db.items[i].id = id
    THEN CHOOSE i \in 1..Len(db.items) :
            /\ db.items[i].id = id
            /\ \A j \in 1..(i - 1) : db.items[j].id # id
    ELSE Len(db.items)

\* the index of the first item with this id, 0 when there is none
IndexOf(db, id) ==
    IF \E i \in 1..Len(db.items) : db.items[i].id = id
    THEN CHOOSE i \in 1..Len(db.items) :
            /\ db.items[i].id = id
            /\ \A j \in 1..(i - 1) : db.items[j].id # id
    ELSE 0

\* tag_item, for an id that is present: the tags are united into the item's
tag_item(db, id, tags) ==
    LET i == IndexOf(db, id)
    IN  [db EXCEPT !.items[i].tags = @ \cup tags]

-----------------------------------------------------------------------------
(* browser.py / unlike.py: unlike_post *)

\* a faulty variant of unlike_post: the item is deleted from the collection
unlike_post_delete(db, id, timestamp) ==
    LET i == IndexOf(db, id)
    IN  [db EXCEPT !.items = SubSeq(db.items, 1, i - 1) \o SubSeq(db.items, i + 1, Len(db.items))]

\* a faulty variant of unlike_post: the item is marked removed and is not
\* marked reviewed
unlike_post_unreviewed(db, id, timestamp) ==
    LET i == IndexOf(db, id)
    IN  [db EXCEPT !.items[i].removed = TRUE,
                   !.items[i].removed_at = timestamp]

\* a faulty variant of unlike_post: first_seen is stamped as well
unlike_post_restamp(db, id, timestamp) ==
    LET i == IndexOf(db, id)
    IN  [db EXCEPT !.items[i].removed = TRUE,
                   !.items[i].removed_at = timestamp,
                   !.items[i].reviewed = TRUE,
                   !.items[i].first_seen = timestamp]

\* unlike_post, for an id that is present: the item is marked, whatever the
\* browser did
unlike_post(db, id, timestamp) ==
    LET i == IndexOf(db, id)
    IN  [db EXCEPT !.items[i].removed = TRUE,
                   !.items[i].removed_at = timestamp,
                   !.items[i].reviewed = TRUE]

-----------------------------------------------------------------------------
(* paper_extractor.py: extract_papers *)

TextShort == 100        \* text_short = len(text) < 100
DescLimit == 500        \* item["desc"] = text[:500]
TitlesSearched == 2     \* info["paper_titles"][:2]
RateLimit == 1          \* arxiv_rate_limit_sec, the seconds slept after a search

\* A page, as extract_papers reads it: content["text"] (text, of length
\* `length`), content["image_count"], and what the patterns of
\* extract_paper_info find in the text: the arXiv ids, the candidate titles,
\* and whether one of the keywords occurs.
extract_paper_info(page) ==
    [arxiv_ids |-> page.arxiv_ids,
     paper_titles |-> page.paper_titles,
     is_paper |-> (page.arxiv_ids # {} \/ page.paper_titles # <<>> \/ page.keyword)]

\* re.sub(r"v\d+$", "", aid)
StripVersion(aid) == [id |-> aid.id]

\* a faulty variant of searched_titles: every candidate title is searched
searched_titles_all(info) ==
    IF info.is_paper /\ info.arxiv_ids = {} /\ info.paper_titles # <<>>
    THEN info.paper_titles
    ELSE <<>>

\* the titles the "Search arXiv" loop passes to search_arxiv for a page
searched_titles(info) ==
    IF info.is_paper /\ info.arxiv_ids = {} /\ info.paper_titles # <<>>
    THEN SubSeq(info.paper_titles, 1,
                IF Len(info.paper_titles) < TitlesSearched
                THEN Len(info.paper_titles) ELSE TitlesSearched)
    ELSE <<>>

\* the "Search arXiv" loop: the ids search_arxiv returned for the titles
\* searched (lookup[t] is the result list for title t, empty on failure)
SearchedIds(info, lookup) ==
    LET ts == searched_titles(info)
    IN  UNION {{StripVersion(lookup[ts[k]][j]) : j \in 1..Len(lookup[ts[k]])} :
                  k \in 1..Len(ts)}

\* "Determine status"
PaperStatus(info, ids, page) ==
    LET has_id == ids # {} \/ info.paper_titles # <<>>
        text_short == page.length < TextShort
    IN  IF has_id THEN "extracted"
        ELSE IF info.is_paper /\ page.image_count > 0 /\ text_short THEN "needs_vision"
        ELSE IF info.is_paper THEN "no_id_found"
        ELSE "insight"

\* the body of the loop of extract_papers for one item
ExtractItem(item, page, lookup) ==
    LET info == extract_paper_info(page)
        ids == info.arxiv_ids \cup SearchedIds(info, lookup)
    IN  [item EXCEPT
            !.desc = IF item.desc = <<>> /\ page.text # <<>>
                     THEN SubSeq(page.text, 1, IF Len(page.text) < DescLimit
                                               THEN Len(page.text) ELSE DescLimit)
                     ELSE item.desc,
            !.papers_extracted = TRUE,
            !.paper_status = PaperStatus(info, ids, page),
            !.arxiv_ids = ids]

\* a faulty variant of the ai_items filter: papers_extracted is not looked at
IsAiItem_again(item) == AI_LLM \in item.tags

\* ai_items: tagged "AI/LLM" and not yet extracted
IsAiItem(item) == AI_LLM \in item.tags /\ ~item.papers_extracted

\* extract_papers: every item of ai_items is processed, pages[i] being the
\* page of item i
extract_papers(db, pages, lookup) ==
    [db EXCEPT !.items =
        [i \in 1..Len(db.items) |->
            IF IsAiItem(db.items[i]) THEN ExtractItem(db.items[i], pages[i], lookup)
            ELSE db.items[i]]]

\* the calls of search_arxiv in one run of extract_papers, from item i on,
\* slept seconds after the run began: time.sleep(rate_limit) follows each call
RECURSIVE CallsFrom(_, _, _, _)
CallsFrom(db, pages, i, slept) ==
    IF i > Len(db.items) THEN <<>>
    ELSE IF ~IsAiItem(db.items[i]) THEN CallsFrom(db, pages, i + 1, slept)
    ELSE LET ts == searched_titles(extract_paper_info(pages[i]))
         IN  [k \in 1..Len(ts) |-> [item |-> i, title |-> ts[k],
                                     at |-> slept + (k - 1) * RateLimit]]
             \o CallsFrom(db, pages, i + 1, slept + Len(ts) * RateLimit)

search_calls(db, pages) == CallsFrom(db, pages, 1, 0)

-----------------------------------------------------------------------------
(* reviewer.py: the review session *)

\* str.strip(), the blank being the one whitespace character of the model
RECURSIVE LStrip(_)
LStrip(s) == IF s # <<>> /\ Head(s) = " " THEN LStrip(Tail(s)) ELSE s

RECURSIVE RStrip(_)
RStrip(s) ==
    IF s # <<>> /\ s[Len(s)] = " " THEN RStrip(SubSeq(s, 1, Len(s) - 1)) ELSE s

Strip(s) == LStrip(RStrip(s))

\* str.startswith
StartsWith(s, prefix) ==
    Len(s) >= Len(prefix) /\ SubSeq(s, 1, Len(prefix)) = prefix

\* s.split(maxsplit=1)[1], for a stripped s that holds a blank: what follows
\* the first run of blanks
RECURSIVE DropWord(_)
DropWord(s) == IF s # <<>> /\ Head(s) # " " THEN DropWord(Tail(s)) ELSE s

SplitRest(s) == LStrip(DropWord(s))

\* s.split(",")
RECURSIVE SplitComma(_)
SplitComma(s) ==
    IF \E i \in 1..Len(s) : s[i] = ","
    THEN LET i == CHOOSE k \in 1..Len(s) : s[k] = "," /\ \A j \in 1..(k - 1) : s[j] # ","
         IN  <<SubSeq(s, 1, i - 1)>> \o SplitComma(SubSeq(s, i + 1, Len(s)))
    ELSE <<s>>

\* [t.strip() for t in new_tags if t.strip()], as a set
NewTags(c) ==
    LET parts == SplitComma(SplitRest(c))
    IN  {Strip(parts[k]) : k \in 1..Len(parts)} \ {<<>>}

\* the state _load_state returns when the file is missing
DefaultState ==
    [mode |-> "ai", reviewed_ids |-> {}, session_start |-> NoTime]

NoStateFile == [exists |-> FALSE, state |-> DefaultState]

\* a faulty variant of _load_state: the file is not read
load_state_fresh(file) == DefaultState

\* _load_state (last_shown_id is never written by the code and is left out)
load_state(file) == IF file.exists THEN file.state ELSE DefaultState

\* a faulty variant of the filter: mode "other" keeps the items tagged AI/LLM
Eligible_other_unfiltered(item, mode, reviewed_ids) ==
    /\ item.id \notin reviewed_ids
    /\ ~(mode = "ai" /\ AI_LLM \notin item.tags)

\* whether _get_items keeps an item
Eligible(item, mode, reviewed_ids) ==
    /\ item.id \notin reviewed_ids
    /\ ~(mode = "ai" /\ AI_LLM \notin item.tags)
    /\ ~(mode = "other" /\ AI_LLM \in item.tags)

\* a faulty variant of _get_items: the newest item comes first
get_items_newest_first(db, mode, reviewed_ids) ==
    LET RECURSIVE From(_)
        From(i) ==
            IF i = 0 THEN <<>>
            ELSE (IF Eligible(db.items[i], mode, reviewed_ids) THEN <<i>> ELSE <<>>)
                 \o From(i - 1)
    IN  From(Len(db.items))

\* _get_items: the indices of the eligible items, in collection order
get_items(db, mode, reviewed_ids) ==
    LET RECURSIVE From(_)
        From(i) ==
            IF i > Len(db.items) THEN <<>>
            ELSE (IF Eligible(db.items[i], mode, reviewed_ids) THEN <<i>> ELSE <<>>)
                 \o From(i + 1)
    IN  From(1)

K == <<"k">>
KEEP == <<"k", "e", "e", "p">>
R == <<"r">>
REMOVE == <<"r", "e", "m", "o", "v", "e">>
S == <<"s">>
SKIP == <<"s", "k", "i", "p">>
Q == <<"q">>
QUIT == <<"q", "u", "i", "t">>
T_ == <<"t", " ">>
TAG_ == <<"t", "a", "g", " ">>
N_ == <<"n", " ">>
NOTE_ == <<"n", "o", "t", "e", " ">>

\* which branch of the if / elif chain a command takes
Branch(c) ==
    IF c \in {K, KEEP, <<>>} THEN "keep"
    ELSE IF c \in {R, REMOVE} THEN "remove"
    ELSE IF c \in {S, SKIP} THEN "skip"
    ELSE IF StartsWith(c, T_) \/ StartsWith(c, TAG_) THEN "tag"
    ELSE IF StartsWith(c, N_) \/ StartsWith(c, NOTE_) THEN "note"
    ELSE IF c \in {Q, QUIT} THEN "quit"
    ELSE "unknown"

\* a faulty variant of the loop body: keep records the id and leaves the
\* item's reviewed flag as it was
review_step_keep_unflagged(loc, c, timestamp) ==
    LET idx == loc.items[loc.pos + 1]
        item == loc.data.items[idx]
    IN  IF Branch(c) = "keep"
        THEN [loc EXCEPT !.reviewed = @ \cup {item.id}, !.pos = @ + 1]
        ELSE IF Branch(c) = "remove"
        THEN [loc EXCEPT !.data.items[idx].reviewed = TRUE,
                         !.data.items[idx].removed = TRUE,
                         !.data.items[idx].removed_at = timestamp,
                         !.reviewed = @ \cup {item.id},
                         !.pos = @ + 1]
        ELSE IF Branch(c) = "skip"
        THEN [loc EXCEPT !.pos = @ + 1]
        ELSE loc

\* a faulty variant of the loop body: skip leaves the position where it was
review_step_skip_stays(loc, c, timestamp) ==
    LET idx == loc.items[loc.pos + 1]
        item == loc.data.items[idx]
        b == Branch(c)
    IN  IF b = "keep"
        THEN [loc EXCEPT !.data.items[idx].reviewed = TRUE,
                         !.reviewed = @ \cup {item.id},
                         !.pos = @ + 1]
        ELSE IF b = "remove"
        THEN [loc EXCEPT !.data.items[idx].reviewed = TRUE,
                         !.data.items[idx].removed = TRUE,
                         !.data.items[idx].removed_at = timestamp,
                         !.reviewed = @ \cup {item.id},
                         !.pos = @ + 1]
        ELSE IF b = "tag"
        THEN [loc EXCEPT !.data.items[idx].tags = @ \cup NewTags(c)]
        ELSE IF b = "note"
        THEN [loc EXCEPT !.data.items[idx].note = SplitRest(c)]
        ELSE loc

\* a faulty variant of the loop body: keep does not record the id
review_step_keep_unrecorded(loc, c, timestamp) ==
    LET idx == loc.items[loc.pos + 1]
    IN  IF Branch(c) = "keep"
        THEN [loc EXCEPT !.data.items[idx].reviewed = TRUE, !.pos = @ + 1]
        ELSE IF Branch(c) \in {"remove", "skip"}
        THEN [loc EXCEPT !.pos = @ + 1]
        ELSE loc

\* a faulty variant of the loop body: remove leaves removed_at as it was
review_step_remove_undated(loc, c, timestamp) ==
    LET idx == loc.items[loc.pos + 1]
        item == loc.data.items[idx]
    IN  IF Branch(c) \in {"keep", "remove"}
        THEN [loc EXCEPT !.data.items[idx].reviewed = TRUE,
                         !.data.items[idx].removed = (Branch(c) = "remove") \/ @,
                         !.reviewed = @ \cup {item.id},
                         !.pos = @ + 1]
        ELSE IF Branch(c) = "skip"
        THEN [loc EXCEPT !.pos = @ + 1]
        ELSE loc

\* a faulty variant of the loop body: skip records the id like keep
review_step_skip_records(loc, c, timestamp) ==
    LET idx == loc.items[loc.pos + 1]
        item == loc.data.items[idx]
    IN  IF Branch(c) \in {"keep", "skip"}
        THEN [loc EXCEPT !.data.items[idx].reviewed = (Branch(c) = "keep") \/ @,
                         !.reviewed = @ \cup {item.id},
                         !.pos = @ + 1]
        ELSE loc

\* a faulty variant of the loop body: an unknown command moves on
review_step_unknown_advances(loc, c, timestamp) ==
    LET idx == loc.items[loc.pos + 1]
        item == loc.data.items[idx]
    IN  IF Branch(c) = "keep"
        THEN [loc EXCEPT !.data.items[idx].reviewed = TRUE,
                         !.reviewed = @ \cup {item.id},
                         !.pos = @ + 1]
        ELSE IF Branch(c) \in {"skip", "unknown"}
        THEN [loc EXCEPT !.pos = @ + 1]
        ELSE loc

\* one pass of the while loop on command c: the locals after it
\* (idx is items[pos], the index of the presented item; pos counts from 0)
review_step(loc, c, timestamp) ==
    LET idx == loc.items[loc.pos + 1]
        item == loc.data.items[idx]
        b == Branch(c)
    IN  IF b = "keep"
        THEN [loc EXCEPT !.data.items[idx].reviewed = TRUE,
                         !.reviewed = @ \cup {item.id},
                         !.pos = @ + 1]
        ELSE IF b = "remove"
        THEN [loc EXCEPT !.data.items[idx].reviewed = TRUE,
                         !.data.items[idx].removed = TRUE,
                         !.data.items[idx].removed_at = timestamp,
                         !.reviewed = @ \cup {item.id},
                         !.pos = @ + 1]
        ELSE IF b = "skip"
        THEN [loc EXCEPT !.pos = @ + 1]
        ELSE IF b = "tag"
        THEN [loc EXCEPT !.data.items[idx].tags = @ \cup NewTags(c)]
        ELSE IF b = "note"
        THEN [loc EXCEPT !.data.items[idx].note = SplitRest(c)]
        ELSE loc

-----------------------------------------------------------------------------
(* The inputs the model draws from *)

N1 == <<"n", "1">>
N2 == <<"n", "2">>
Ids == {N1, N2}

LLM == <<"L", "L", "M">>
PY == <<"p", "y">>

\* the raw records a capture may hold: with a display_title, with a title
\* only, with neither, and without a note_id
NoteSet ==
    {[note_id |-> N1, display_title |-> LLM, title |-> <<>>, nickname |-> <<"u">>],
     [note_id |-> N1, display_title |-> <<>>, title |-> PY, nickname |-> <<>>],
     [note_id |-> N2, display_title |-> <<>>, title |-> <<>>, nickname |-> <<>>],
     [note_id |-> <<>>, display_title |-> LLM, title |-> <<>>, nickname |-> <<>>]}

RawStreams == SeqsUpTo(NoteSet, MaxRaw)

\* config.tag_rules: the default rules (two of them, a keyword each), and
\* what a user may change them to in config.yaml
DefaultRules ==
    <<[name |-> AI_LLM, keywords |-> {<<"l", "l", "m">>}],
      [name |-> CODING, keywords |-> {<<"p", "y">>}]>>

RuleSets ==
    {DefaultRules,
     <<[name |-> CODING, keywords |-> {<<"l", "l", "m">>, <<"u7B14">>}]>>}

\* the tags tag_item is called with
ManualTags == {{<<"x">>}, {AI_LLM}}

\* the lines the user types at the review prompt
InputLines ==
    {<<"k">>, <<>>, <<" ", "K", "e", "e", "p">>,
     <<"r">>, <<"s">>, <<"q">>,
     <<"t", " ", "X", ",", " ", ",", "x">>,
     <<"t", " ">> \o AI_LLM,
     <<"n", " ", "O", "k">>,
     <<"z">>}

Modes == {"ai", "other", "all"}

\* the pages extract_papers may load
Pages ==
    {[text |-> <<"p">>, length |-> 150, image_count |-> 0,
      arxiv_ids |-> {[id |-> "2401.00001"]}, paper_titles |-> <<"T1">>, keyword |-> TRUE],
     [text |-> <<"p">>, length |-> 50, image_count |-> 1,
      arxiv_ids |-> {}, paper_titles |-> <<"T1">>, keyword |-> FALSE],
     [text |-> <<"p">>, length |-> 50, image_count |-> 1,
      arxiv_ids |-> {}, paper_titles |-> <<>>, keyword |-> TRUE],
     [text |-> <<"p">>, length |-> 150, image_count |-> 1,
      arxiv_ids |-> {}, paper_titles |-> <<>>, keyword |-> TRUE],
     [text |-> <<>>, length |-> 0, image_count |-> 0,
      arxiv_ids |-> {}, paper_titles |-> <<>>, keyword |-> FALSE],
     [text |-> <<"p">>, length |-> 150, image_count |-> 0,
      arxiv_ids |-> {}, paper_titles |-> <<"T1", "T2", "T3">>, keyword |-> FALSE]}

Titles == {"T1", "T2", "T3"}

\* what search_arxiv may return for the candidate titles
Lookups ==
    {[t \in Titles |-> <<>>],
     [t \in Titles |-> IF t = "T1" THEN <<[id |-> "2401.00002", ver |-> 2]>> ELSE <<>>],
     [t \in Titles |-> IF t = "T3" THEN <<[id |-> "2401.00003", ver |-> 1]>>
                       ELSE IF t = "T2" THEN <<[id |-> "2401.00002", ver |-> 1],
                                               [id |-> "2401.00004", ver |-> 3]>>
                       ELSE <<>>]}

-----------------------------------------------------------------------------
(* The state after installation: no file written, the default rules *)

NoLocals ==
    /\ state = DefaultState
    /\ data = EmptyDb
    /\ reviewed = {}
    /\ items = <<>>

Init ==
    /\ likes_file = NoFile
    /\ state_file = NoStateFile
    /\ tag_rules = DefaultRules
    /\ clock = 1
    /\ command = "none"
    /\ steps = 0
    /\ notes = <<>>
    /\ new = 0
    /\ item_id = <<>>
    /\ printed = "none"
    /\ calls = <<>>
    /\ pc = "idle"
    /\ NoLocals
    /\ pos = 0
    /\ cmd = <<>>
    /\ skipped = {}
    /\ save_prev = NoFile
    /\ save_data = EmptyDb
    /\ title = <<>>
    /\ text = <<>>
    /\ tags_out = <<>>

\* review returns: its locals are gone
DropLocals ==
    /\ state' = DefaultState
    /\ data' = EmptyDb
    /\ reviewed' = {}
    /\ items' = <<>>

classifier_vars == <<title, text, tags_out>>
review_vars == <<state, data, reviewed, items, pos, cmd, skipped>>
fetch_vars == <<notes, new, item_id, printed, calls>>
save_vars == <<save_prev, save_data>>

\* a command starts in a new process: nothing is left of the one before
NoReviewFrame == DropLocals /\ pos' = 0 /\ cmd' = <<>> /\ skipped' = {}
NoFetchFrame ==
    notes' = <<>> /\ new' = 0 /\ item_id' = <<>> /\ printed' = "none" /\ calls' = <<>>

\* one more command, or one more prompt, within the model's run
Step ==
    /\ steps < MaxSteps
    /\ steps' = steps + 1

\* the clock moves on a minute
Tick ==
    /\ clock < MaxClock
    /\ clock' = clock + 1
    /\ UNCHANGED <<likes_file, state_file, tag_rules, command, steps, pc, save_vars>>
    /\ UNCHANGED <<fetch_vars, review_vars, classifier_vars>>

\* the user edits tag_rules in config.yaml
SetRules ==
    /\ pc = "idle"
    /\ Step
    /\ \E rules \in RuleSets \ {tag_rules} : tag_rules' = rules
    /\ command' = "config"
    /\ UNCHANGED <<likes_file, state_file, clock, pc, save_vars>>
    /\ UNCHANGED <<fetch_vars, review_vars, classifier_vars>>

-----------------------------------------------------------------------------
(* save_db, as the commands below use it *)

\* save_db(path, data) returns: the file holds the new document
Commit(db) ==
    /\ likes_file' = save_db(db)
    /\ pc' = "idle"
    /\ UNCHANGED save_vars

\* open(path, "w"): the file is there and empty, the text is still to write
BeginSave(db) ==
    /\ save_prev' = likes_file
    /\ save_data' = db
    /\ likes_file' = [exists |-> TRUE, text |-> <<>>]
    /\ pc' = "saving"

\* a faulty variant of Raises: the command goes on with an empty collection
\* and saves it
Raises_overwrites ==
    /\ likes_file' = save_db(EmptyDb)
    /\ UNCHANGED <<pc, save_vars>>

\* json.loads raises in load_db: the exception ends the command, which has
\* written nothing
Raises == UNCHANGED <<likes_file, pc, save_vars>>

\* the command's save_db call: followed to its return, or only entered
Save(whole, db) == IF whole THEN Commit(db) ELSE BeginSave(db)

-----------------------------------------------------------------------------
(* The commands.  whole tells how the command's save_db call is followed. *)

\* fetch_likes: _fetch_by_tab captured raw; the records are deduplicated and
\* merged
FetchLikesWith(raw, whole) ==
    /\ pc = "idle"
    /\ Step
    /\ LET ns == Deduplicate(raw)
       IN  /\ notes' = ns
           /\ IF CanLoad(likes_file)
              THEN LET r == process_notes(load_db(likes_file), ns, now_cn)
                   IN  /\ Save(whole, r.db)
                       /\ new' = r.new_count
              ELSE /\ Raises
                   /\ new' = 0
    /\ item_id' = <<>>
    /\ printed' = "none"
    /\ calls' = <<>>
    /\ command' = "fetch"
    /\ NoReviewFrame
    /\ UNCHANGED <<state_file, tag_rules, clock, classifier_vars>>

FetchLikes == \E raw \in RawStreams : FetchLikesWith(raw, TRUE)

\* tag_all(config, "likes")
TagAllWith(whole) ==
    /\ pc = "idle"
    /\ Step
    /\ IF CanLoad(likes_file)
       THEN Save(whole, tag_all(load_db(likes_file), tag_rules))
       ELSE Raises
    /\ command' = "tag"
    /\ NoReviewFrame
    /\ NoFetchFrame
    /\ UNCHANGED <<state_file, tag_rules, clock, classifier_vars>>

TagAll == TagAllWith(TRUE)

\* tag_item(config, "likes", item_id, tags): nothing is written when the id
\* is not found
TagItem ==
    /\ pc = "idle"
    /\ Step
    /\ \E id \in Ids, tags \in ManualTags :
          /\ item_id' = id
          /\ IF CanLoad(likes_file)
             THEN LET db == load_db(likes_file)
                  IN  IF IndexOf(db, id) # 0
                      THEN /\ Commit(tag_item(db, id, tags))
                           /\ printed' = "Tagged"
                      ELSE /\ UNCHANGED <<likes_file, pc, save_vars>>
                           /\ printed' = "Item not found"
             ELSE /\ Raises
                  /\ printed' = "none"
    /\ command' = "tag_item"
    /\ NoReviewFrame
    /\ notes' = <<>>
    /\ new' = 0
    /\ calls' = <<>>
    /\ UNCHANGED <<state_file, tag_rules, clock, classifier_vars>>

\* unlike_post(config, item_id): nothing is written when the id is not found
UnlikePost ==
    /\ pc = "idle"
    /\ Step
    /\ \E id \in Ids :
          /\ item_id' = id
          /\ IF CanLoad(likes_file)
             THEN LET db == load_db(likes_file)
                  IN  IF IndexOf(db, id) # 0
                      THEN /\ Commit(unlike_post(db, id, now_cn))
                           /\ printed' = "Marked as removed"
                      ELSE /\ UNCHANGED <<likes_file, pc, save_vars>>
                           /\ printed' = "Item not found"
             ELSE /\ Raises
                  /\ printed' = "none"
    /\ command' = "unlike"
    /\ NoReviewFrame
    /\ notes' = <<>>
    /\ new' = 0
    /\ calls' = <<>>
    /\ UNCHANGED <<state_file, tag_rules, clock, classifier_vars>>

\* extract_papers(config): nothing is written when ai_items is empty
ExtractPapers ==
    /\ pc = "idle"
    /\ Step
    /\ IF CanLoad(likes_file)
       THEN LET db == load_db(likes_file)
            IN  IF \E i \in 1..Len(db.items) : IsAiItem(db.items[i])
                THEN \E pages \in [{i \in 1..Len(db.items) : IsAiItem(db.items[i])}
                                      -> Pages],
                        lookup \in Lookups :
                         /\ Commit(extract_papers(db, pages, lookup))
                         /\ calls' = search_calls(db, pages)
                ELSE /\ UNCHANGED <<likes_file, pc, save_vars>>
                     /\ calls' = <<>>
       ELSE /\ Raises
            /\ calls' = <<>>
    /\ command' = "extract-papers"
    /\ NoReviewFrame
    /\ notes' = <<>>
    /\ new' = 0
    /\ item_id' = <<>>
    /\ printed' = "none"
    /\ UNCHANGED <<state_file, tag_rules, clock, classifier_vars>>

-----------------------------------------------------------------------------
(* review(config, mode) *)

\* a faulty variant of the save: only the ids reviewed in this session are written
review_save_session_only(st, rv, db) ==
    [state_file |-> [exists |-> TRUE,
                     state |-> [st EXCEPT !.reviewed_ids = rv \ st.reviewed_ids]],
     likes_file |-> save_db(db)]

\* the lines under "# Save": what the two files hold after them
review_save(st, rv, db) ==
    [state_file |-> [exists |-> TRUE, state |-> [st EXCEPT !.reviewed_ids = rv]],
     likes_file |-> save_db(db)]

\* review up to the first prompt: with no eligible item it returns at once,
\* and nothing is written
ReviewStart ==
    /\ pc = "idle"
    /\ Step
    /\ IF CanLoad(likes_file)
       THEN \E mode \in Modes :
               LET st == [load_state(state_file) EXCEPT !.mode = mode,
                                                        !.session_start = now_cn]
                   db == load_db(likes_file)
                   rv == st.reviewed_ids
                   its == get_items(db, mode, rv)
               IN  IF its = <<>>
                   THEN /\ DropLocals
                        /\ UNCHANGED pc
                   ELSE /\ pc' = "review"
                        /\ state' = st
                        /\ data' = db
                        /\ reviewed' = rv
                        /\ items' = its
       ELSE /\ DropLocals
            /\ UNCHANGED pc
    /\ pos' = 0
    /\ cmd' = <<>>
    /\ command' = "review"
    /\ NoFetchFrame
    /\ UNCHANGED <<likes_file, state_file, tag_rules, clock, skipped, save_vars,
                   classifier_vars>>

\* one line, of those given, is read at the prompt and the loop body runs on
\* it; when the loop ends (quit, or the last eligible item passed) the two
\* files are written and review returns; counted says whether the line counts
\* among the steps of the run
ReviewInputFrom(lines, counted) ==
    /\ pc = "review"
    /\ IF counted THEN Step ELSE UNCHANGED steps
    /\ \E line \in lines :
          LET c == Lower(Strip(line))
              after == review_step([data |-> data, reviewed |-> reviewed,
                                    items |-> items, pos |-> pos], c, now_cn)
              idx == items[pos + 1]
          IN  /\ cmd' = c
              /\ LET earlier == IF pos = 0 /\ cmd = <<>> THEN {} ELSE skipped
                 IN  skipped' = IF Branch(c) = "skip"
                                THEN earlier \cup {[id |-> data.items[idx].id,
                                                    tags |-> data.items[idx].tags,
                                                    mode |-> state.mode]}
                                ELSE earlier
              /\ pos' = after.pos
              /\ IF Branch(c) = "quit" \/ after.pos >= Len(items)
                 THEN LET saved == review_save(state, after.reviewed, after.data)
                      IN  /\ state_file' = saved.state_file
                          /\ likes_file' = saved.likes_file
                          /\ pc' = "idle"
                          /\ DropLocals
                 ELSE /\ data' = after.data
                      /\ reviewed' = after.reviewed
                      /\ UNCHANGED <<likes_file, state_file, pc, state, items>>
    /\ UNCHANGED <<tag_rules, clock, command, save_vars, fetch_vars, classifier_vars>>

ReviewInput == ReviewInputFrom(InputLines, TRUE)

\* input() raises (end of input, Ctrl-C): review has no handler, the exception
\* leaves it and the process ends
ReviewInterrupt ==
    /\ pc = "review"
    /\ pc' = "idle"
    /\ DropLocals
    /\ UNCHANGED <<likes_file, state_file, tag_rules, clock, command, steps, pos, cmd,
                   skipped>>
    /\ UNCHANGED <<save_vars, fetch_vars, classifier_vars>>

-----------------------------------------------------------------------------
(* The program: commands run one at a time, each to completion *)

Next ==
    \/ FetchLikes
    \/ TagAll
    \/ TagItem
    \/ UnlikePost
    \/ ExtractPapers
    \/ ReviewStart
    \/ ReviewInput
    \/ ReviewInterrupt
    \/ SetRules
    \/ Tick

Spec == Init /\ [][Next]_vars

-----------------------------------------------------------------------------
(* The classifier on its own: auto_tag applied to drawn arguments *)

Alphabet == {"a", "A", " "}

FOO == <<"f", "o", "o">>
BAR == <<"b", "a", "r">>
FOO_BAR == <<"f", "o", "o", " ", "b", "a", "r">>
HELLO_WORLD == <<"h", "e", "l", "l", "o", " ", "w", "o", "r", "l", "d">>

Strs == SeqsUpTo(Alphabet, MaxStr) \cup {FOO_BAR, HELLO_WORLD}

RuleX == [name |-> <<"X">>, keywords |-> {FOO}]
RuleY == [name |-> <<"Y">>, keywords |-> {BAR}]
RuleA == [name |-> <<"A">>, keywords |-> {<<"a", "A">>}]
RuleS == [name |-> <<"S">>, keywords |-> {<<"A", " ", "a">>, <<" ", " ">>}]
RuleE == [name |-> <<"E">>, keywords |-> {}]

RuleLists == SeqsUpTo({RuleX, RuleY, RuleA, RuleS, RuleE}, MaxRules)

InitClassifier ==
    /\ likes_file = NoFile
    /\ state_file = NoStateFile
    /\ tag_rules \in RuleLists
    /\ clock = 1
    /\ command = "none"
    /\ steps = 0
    /\ notes = <<>>
    /\ new = 0
    /\ item_id = <<>>
    /\ printed = "none"
    /\ calls = <<>>
    /\ pc = "idle"
    /\ NoLocals
    /\ pos = 0
    /\ cmd = <<>>
    /\ skipped = {}
    /\ save_prev = NoFile
    /\ save_data = EmptyDb
    /\ title \in Strs
    /\ text \in Strs
    /\ tags_out = <<>>

\* tags = auto_tag(title, text, config.tag_rules)
Classify ==
    /\ command = "none"
    /\ tags_out' = auto_tag(title, text, tag_rules)
    /\ command' = "auto_tag"
    /\ UNCHANGED <<likes_file, state_file, tag_rules, clock, steps, pc, title, text>>
    /\ UNCHANGED <<save_vars, fetch_vars, review_vars>>

NextClassifier == Classify

SpecClassifier == InitClassifier /\ [][NextClassifier]_vars

-----------------------------------------------------------------------------
(* Review sessions on their own, over a collection that one fetch and one
   tag_all pass have left *)

InitReview ==
    /\ \E raw \in RawStreams :
          likes_file = save_db(tag_all(process_notes(EmptyDb, Deduplicate(raw), 1).db,
                                       DefaultRules))
    /\ state_file = NoStateFile
    /\ tag_rules = DefaultRules
    /\ clock = 1
    /\ command = "tag"
    /\ steps = 0
    /\ notes = <<>>
    /\ new = 0
    /\ item_id = <<>>
    /\ printed = "none"
    /\ calls = <<>>
    /\ pc = "idle"
    /\ NoLocals
    /\ pos = 0
    /\ cmd = <<>>
    /\ skipped = {}
    /\ save_prev = NoFile
    /\ save_data = EmptyDb
    /\ title = <<>>
    /\ text = <<>>
    /\ tags_out = <<>>

NextReview ==
    \/ ReviewStart
    \/ ReviewInput
    \/ ReviewInterrupt
    \/ Tick

SpecReview == InitReview /\ [][NextReview]_vars

-----------------------------------------------------------------------------
(* save_db step by step: path.write_text opens the file for writing, which
   empties it, and then writes the text of json.dumps; the process can be
   killed at any point in between *)

\* the next piece of the text reaches the file; after the last one save_db
\* returns
SaveWrite ==
    /\ pc = "saving"
    /\ LET txt == Dumps(save_data)
           n == Len(likes_file.text) + 1
       IN  /\ likes_file' = [likes_file EXCEPT !.text = SubSeq(txt, 1, n)]
           /\ pc' = IF n = Len(txt) THEN "idle" ELSE "saving"
    /\ UNCHANGED <<state_file, tag_rules, clock, command, steps, save_vars>>
    /\ UNCHANGED <<fetch_vars, review_vars, classifier_vars>>

\* the process is killed while save_db is writing
Kill ==
    /\ pc = "saving"
    /\ pc' = "idle"
    /\ command' = "killed"
    /\ UNCHANGED <<likes_file, state_file, tag_rules, clock, steps, save_vars>>
    /\ UNCHANGED <<fetch_vars, review_vars, classifier_vars>>

FetchLikesSaving == \E raw \in RawStreams : FetchLikesWith(raw, FALSE)

TagAllSaving == TagAllWith(FALSE)

NextKill ==
    \/ FetchLikesSaving
    \/ TagAllSaving
    \/ SaveWrite
    \/ Kill
    \/ Tick

SpecKill == Init /\ [][NextKill]_vars

-----------------------------------------------------------------------------
(* Review sessions in which the user goes on answering: whatever else is
   typed, a line that keeps, removes, skips or quits is typed in the end *)

\* the lines that answer the presented item
AnswerLines == {K, R, S, SKIP, Q}

\* the lines of InputLines that tag, note or are not recognized
OtherLines == {line \in InputLines : Branch(Lower(Strip(line))) \in {"tag", "note", "unknown"}}

ReviewAnswer == ReviewInputFrom(AnswerLines, FALSE)

ReviewOther == ReviewInputFrom(OtherLines, TRUE)

\* review is called, and lines that do not answer are typed, while the run
\* has taken fewer than MaxSessionSteps steps
NextSession ==
    \/ steps < MaxSessionSteps /\ ReviewStart
    \/ steps < MaxSessionSteps /\ ReviewOther
    \/ ReviewAnswer

SpecSession == InitReview /\ [][NextSession]_vars /\ WF_vars(ReviewAnswer)

-----------------------------------------------------------------------------
(* The commands over a collection file that is missing or was left cut short
   by an interrupted save_db *)

\* the files a write of the collection of one fetch leaves when it stops early
DamagedFiles ==
    UNION {{[exists |-> TRUE, text |-> SubSeq(Dumps(db), 1, n)] :
               n \in 0..(Len(Dumps(db)) - 1)} :
             db \in {process_notes(EmptyDb, Deduplicate(raw), 1).db : raw \in RawStreams}}

InitDamaged ==
    /\ likes_file \in {NoFile} \cup DamagedFiles
    /\ state_file = NoStateFile
    /\ tag_rules = DefaultRules
    /\ clock = 1
    /\ command = "none"
    /\ steps = 0
    /\ notes = <<>>
    /\ new = 0
    /\ item_id = <<>>
    /\ printed = "none"
    /\ calls = <<>>
    /\ pc = "idle"
    /\ NoLocals
    /\ pos = 0
    /\ cmd = <<>>
    /\ skipped = {}
    /\ save_prev = NoFile
    /\ save_data = EmptyDb
    /\ title = <<>>
    /\ text = <<>>
    /\ tags_out = <<>>

SpecDamaged == InitDamaged /\ [][Next]_vars

-----------------------------------------------------------------------------
(* What the claims speak of *)

\* the persisted collection, as the next load_db returns it
Likes == load_db(likes_file)

\* the persisted reviewed_ids, as the next _load_state returns them
PersistedReviewed == load_state(state_file).reviewed_ids

\* a command has just been run
Ran(name) == steps' = steps + 1 /\ command' = name

\* id occurs exactly once in the collection
OccursOnce(db, id) == Cardinality({i \in 1..Len(db.items) : db.items[i].id = id}) = 1

-----------------------------------------------------------------------------
(* C1: a merge pass run again on the capture it has just merged adds nothing:
   it returns new = 0, the number of items is unchanged, and every id of the
   capture is in the collection exactly once. *)
C1_IdempotentMerge ==
    [][(Ran("fetch") /\ notes' = notes)
        => /\ new' = 0
           /\ Len(Likes'.items) = Len(Likes.items)
           /\ \A k \in 1..Len(notes) : OccursOnce(Likes', notes[k].note_id)]_vars

\* a second pass over a capture of two records has returned 0
C1_Witness ==
    /\ command = "fetch"
    /\ steps >= 2
    /\ Len(notes) = 2
    /\ new = 0
    /\ Len(Likes.items) = 2

(* C2: no two items of the persisted collection have the same id. *)
C2_IdUnique ==
    CanLoad(likes_file) =>
        \A i, j \in 1..Len(Likes.items) :
            Likes.items[i].id = Likes.items[j].id => i = j

\* a pass has merged a capture of two ids of which one was present already
C2_Witness ==
    /\ command = "fetch"
    /\ Len(notes) = 2
    /\ new = 1
    /\ Len(Likes.items) = 2

(* C3: at every step the ids of the persisted collection are still all
   there, and two ids that were there keep their relative order. *)
C3_AppendOnly ==
    [][LET a == IdsOf(Likes)
           b == IdsOf(Likes')
       IN  /\ Range(a) \subseteq Range(b)
           /\ \A i, j \in 1..Len(a) :
                 i < j => \E k, l \in 1..Len(b) : k < l /\ b[k] = a[i] /\ b[l] = a[j]]_vars

\* unlike_post has marked the first of two items removed, and both are there
C3_Witness ==
    /\ command = "unlike"
    /\ Len(Likes.items) = 2
    /\ Likes.items[1].removed
    /\ ~Likes.items[2].removed

(* C5: a tag_all pass leaves the tags of every item that had a tag unchanged. *)
C5_TagStability ==
    [][Ran("tag")
        => \A i \in 1..Len(Likes.items) :
             Likes.items[i].tags # {} => Likes'.items[i].tags = Likes.items[i].tags]_vars

\* a tag_all pass has run under changed rules, and an item keeps tags that
\* the rules now in force would not give it
C5_Witness ==
    /\ command = "tag"
    /\ tag_rules # DefaultRules
    /\ \E i \in 1..Len(Likes.items) :
          /\ Likes.items[i].tags # {}
          /\ Likes.items[i].tags #
                Range(auto_tag(Likes.items[i].title, Likes.items[i].desc, tag_rules))

-----------------------------------------------------------------------------
(* The classifier's claims, under SpecClassifier *)

\* the names of the rules with a keyword that occurs, whatever its case, in s
NamesMatching(rules, s) ==
    {rules[k].name : k \in {k \in 1..Len(rules) :
        \E kw \in rules[k].keywords : Contains(Lower(s), Lower(kw))}}

\* the orderings of a rule list
Orderings(rules) ==
    {[k \in 1..Len(rules) |-> rules[p[k]]] :
        p \in {q \in [1..Len(rules) -> 1..Len(rules)] :
                  \A a, b \in 1..Len(rules) : q[a] = q[b] => a = b}}

UNCATEGORIZED ==
    <<"u", "n", "c", "a", "t", "e", "g", "o", "r", "i", "z", "e", "d">>

(* C6, as claimed: auto_tag returns exactly the names of the rules with a
   keyword that occurs, whatever its case, in the concatenation of title and
   desc (stated where there is such a rule; where there is none, C7 states
   the result). *)
C6_AsClaimed ==
    (command = "auto_tag" /\ NamesMatching(tag_rules, title \o text) # {})
        => Range(tags_out) = NamesMatching(tag_rules, title \o text)

(* C6, as amended: auto_tag returns exactly the names of the rules with a
   keyword that occurs, whatever its case, in title, one blank and desc
   joined, or the fallback tag alone when there is no such rule; rules
   X:{foo}, Y:{bar} on "foo bar" give {X, Y}; and the set returned is the same
   for every ordering of the rules. *)
C6_Classifier ==
    command = "auto_tag" =>
        LET matching == NamesMatching(tag_rules, title \o <<" ">> \o text)
        IN  /\ Range(tags_out) = (IF matching = {} THEN {FALLBACK} ELSE matching)
            /\ (title = FOO_BAR /\ tag_rules = <<RuleX, RuleY>>)
                  => Range(tags_out) = {<<"X">>, <<"Y">>}
            /\ \A rules \in Orderings(tag_rules) :
                  Range(auto_tag(title, text, rules)) = Range(tags_out)

\* rules Y:{bar}, X:{foo} were applied to "foo bar" and gave both names
C6_Witness ==
    /\ command = "auto_tag"
    /\ title = FOO_BAR
    /\ text = <<>>
    /\ tag_rules = <<RuleY, RuleX>>
    /\ Range(tags_out) = {<<"X">>, <<"Y">>}

(* C7, as claimed: when no rule matches, auto_tag returns the tag
   "uncategorized" alone. *)
C7_AsClaimed ==
    (command = "auto_tag" /\ NamesMatching(tag_rules, title \o <<" ">> \o text) = {})
        => Range(tags_out) = {UNCATEGORIZED}

(* C7, as amended: when no rule matches, auto_tag returns the one-element
   list holding the fallback tag U+5176 U+4ED6. *)
C7_Fallback ==
    (command = "auto_tag" /\ NamesMatching(tag_rules, title \o <<" ">> \o text) = {})
        => tags_out = <<FALLBACK>>

\* "hello world" was classified under rules none of which matches it
C7_Witness ==
    /\ command = "auto_tag"
    /\ title = HELLO_WORLD
    /\ text = <<>>
    /\ tag_rules = <<RuleX, RuleY>>
    /\ tags_out = <<FALLBACK>>

-----------------------------------------------------------------------------
(* The review session's claims, under SpecReview *)

\* the loop body has just run on a line read at the prompt
Prompted == pc = "review" /\ steps' = steps + 1

\* the collection and the reviewed set after a pass of the loop: in memory
\* while the session goes on, in the files when it has ended
ItemsAfter == IF pc' = "review" THEN data'.items ELSE Likes'.items
ReviewedAfter == IF pc' = "review" THEN reviewed' ELSE PersistedReviewed'

(* C8: whenever a review session ends, the files hold what the session had
   done: every id in the session's reviewed set is in the persisted
   reviewed_ids, and every item is persisted with the reviewed and removed
   marks, the tags and the note it had in memory. *)
C8_ProgressPersisted ==
    [][(pc = "review" /\ pc' = "idle")
        => /\ reviewed \subseteq PersistedReviewed'
           /\ CanLoad(likes_file')
           /\ Len(Likes'.items) = Len(data.items)
           /\ \A i \in 1..Len(data.items) :
                 /\ data.items[i].reviewed => Likes'.items[i].reviewed
                 /\ data.items[i].removed => Likes'.items[i].removed
                 /\ data.items[i].tags \subseteq Likes'.items[i].tags
                 /\ data.items[i].note = Likes'.items[i].note]_vars

(* C9: the persisted reviewed_ids never lose an id; within a session the
   reviewed set never loses an id; and a skip adds none. *)
C9_ReviewMonotonic ==
    [][/\ PersistedReviewed \subseteq PersistedReviewed'
       /\ (pc = "review" /\ pc' = "review") => reviewed \subseteq reviewed'
       /\ (Prompted /\ cmd' \in {S, SKIP}) => ReviewedAfter = reviewed]_vars

\* a session in mode "other" has ended with both ids persisted, one of them
\* the id of an item tagged AI/LLM, which only an earlier session can have
\* reviewed
C9_Witness ==
    /\ pc = "idle"
    /\ state_file.exists
    /\ state_file.state.mode = "other"
    /\ PersistedReviewed = {N1, N2}
    /\ \E i \in 1..Len(Likes.items) : AI_LLM \in Likes.items[i].tags

(* C10: on k, keep or an empty line the presented item gets reviewed = true,
   its id joins the reviewed set, the position advances by one, and the
   item's removed flag, tags and note stay as they were. *)
C10_Keep ==
    [][(Prompted /\ cmd' \in {K, KEEP, <<>>})
        => LET idx == items[pos + 1]
               before == data.items[idx]
               after == ItemsAfter[idx]
           IN  /\ after.reviewed
               /\ ReviewedAfter = reviewed \cup {before.id}
               /\ pos' = pos + 1
               /\ after.removed = before.removed
               /\ after.tags = before.tags
               /\ after.note = before.note]_vars

\* the first of two eligible items was kept by the line " Keep", after it had
\* been tagged and annotated at the prompt
C10_Witness ==
    /\ pc = "review"
    /\ cmd = KEEP
    /\ pos = 1
    /\ Len(items) = 2
    /\ data.items[items[1]].reviewed
    /\ data.items[items[1]].id \in reviewed
    /\ ~data.items[items[1]].removed

-----------------------------------------------------------------------------
(* The save's claim, under SpecKill *)

(* C4: when no process is writing, the collection file can be loaded and
   holds either the whole document it held before the last save began or the
   whole document that save was given, also when the save was killed. *)
C4_AtomicSave ==
    pc = "idle"
        => /\ CanLoad(likes_file)
           /\ load_db(likes_file) \in {load_db(save_prev), save_data}

-----------------------------------------------------------------------------
(* The transitions of the review loop, under SpecReview *)

\* review has just been called from the shell
StartStep == pc = "idle" /\ Ran("review")

(* C11: on r or remove the presented item gets reviewed = true, removed =
   true and removed_at = the current time, its id joins the reviewed set,
   the position advances by one, and the collection keeps the same items in
   the same places. *)
C11_Remove ==
    [][(Prompted /\ cmd' \in {R, REMOVE})
        => LET idx == items[pos + 1]
               before == data.items[idx]
               after == ItemsAfter[idx]
           IN  /\ after.reviewed
               /\ after.removed
               /\ after.removed_at = clock
               /\ ReviewedAfter = reviewed \cup {before.id}
               /\ pos' = pos + 1
               /\ [i \in 1..Len(ItemsAfter) |-> ItemsAfter[i].id] = IdsOf(data)]_vars

\* the first of two eligible items was removed at minute 2, a minute after it
\* was first seen, and is still in the collection
C11_Witness ==
    /\ pc = "review"
    /\ cmd = R
    /\ pos = 1
    /\ Len(items) = 2
    /\ data.items[items[1]].removed
    /\ data.items[items[1]].removed_at = 2
    /\ data.items[items[1]].first_seen = 1
    /\ data.items[items[1]].id \in reviewed

(* C12: on s or skip the position advances by one, the item is left as it
   was and its id is not in the reviewed set; and the next session, started
   in the mode of the session that skipped it while its tags are those it had
   then, has the item in its eligible list. *)
C12_Skip ==
    [][/\ (Prompted /\ cmd' \in {S, SKIP})
            => LET idx == items[pos + 1]
               IN  /\ pos' = pos + 1
                   /\ ItemsAfter[idx] = data.items[idx]
                   /\ ReviewedAfter = reviewed
                   /\ data.items[idx].id \notin ReviewedAfter
       /\ StartStep
            => \A s \in skipped : \A i \in 1..Len(Likes.items) :
                 (Likes.items[i].id = s.id /\ Likes.items[i].tags = s.tags)
                    => /\ i \in Range(get_items(Likes, s.mode, PersistedReviewed))
                       /\ (pc' = "review" /\ state'.mode = s.mode)
                             => i \in Range(items')]_vars

\* a session in mode "ai" has started after one in mode "ai" that skipped an
\* item, and presents that item first
C12_Witness ==
    /\ pc = "review"
    /\ pos = 0
    /\ cmd = <<>>
    /\ state.mode = "ai"
    /\ \E s \in skipped : s.mode = "ai" /\ data.items[items[1]].id = s.id

(* C13: on "t <csv>" or "tag <csv>" the item's tags become its previous tags
   united with exactly the typed tokens, trimmed and otherwise as typed, the
   empty ones discarded; the position, the reviewed flag and the reviewed set
   stay as they were. *)
C13_Tag ==
    [][\A line \in InputLines :
         (/\ Prompted
          /\ cmd' = Lower(Strip(line))
          /\ StartsWith(Strip(line), T_) \/ StartsWith(Strip(line), TAG_))
            => LET idx == items[pos + 1]
                   before == data.items[idx]
                   after == ItemsAfter[idx]
               IN  /\ after.tags = before.tags \cup NewTags(Strip(line))
                   /\ pos' = pos
                   /\ after.reviewed = before.reviewed
                   /\ ReviewedAfter = reviewed]_vars

(* C14: on "n <text>" or "note <text>" the item's note becomes the rest of
   the line character for character; the position, the reviewed and removed
   flags, the tags and the reviewed set stay as they were. *)
C14_Note ==
    [][\A line \in InputLines :
         (/\ Prompted
          /\ cmd' = Lower(Strip(line))
          /\ StartsWith(Strip(line), N_) \/ StartsWith(Strip(line), NOTE_))
            => LET idx == items[pos + 1]
                   before == data.items[idx]
                   after == ItemsAfter[idx]
               IN  /\ after.note = SplitRest(Strip(line))
                   /\ pos' = pos
                   /\ after.reviewed = before.reviewed
                   /\ after.removed = before.removed
                   /\ after.tags = before.tags
                   /\ ReviewedAfter = reviewed]_vars

(* C15: a line that is none of the commands changes nothing: the session
   goes on at the same position with the same eligible list, the same
   reviewed set and the same items. *)
C15_Unknown ==
    [][(Prompted /\ Branch(cmd') = "unknown")
        => /\ pc' = "review"
           /\ pos' = pos
           /\ items' = items
           /\ reviewed' = reviewed
           /\ data' = data
           /\ state' = state
           /\ likes_file' = likes_file
           /\ state_file' = state_file]_vars

\* "z" was typed at the second item, after the first was kept
C15_Witness ==
    /\ pc = "review"
    /\ cmd = <<"z">>
    /\ pos = 1
    /\ Len(items) = 2
    /\ reviewed = {data.items[items[1]].id}

-----------------------------------------------------------------------------
(* The eligible list *)

\* the indices of a collection whose item's id is not in r, in order
Unreviewed(db, r) ==
    SelectSeq([i \in 1..Len(db.items) |-> i], LAMBDA i : db.items[i].id \notin r)

(* C16: for the persisted collection and every reviewed set, the eligible
   lists of mode "ai" and of mode "other" have no item in common, together
   they hold the items of the list of mode "all", and that list is the items
   whose id is not in the reviewed set, in collection order. *)
C16_ModePartition ==
    CanLoad(likes_file)
        => \A r \in SUBSET Ids :
              LET a == Range(get_items(Likes, "ai", r))
                  b == Range(get_items(Likes, "other", r))
              IN  /\ a \cap b = {}
                  /\ a \cup b = Range(get_items(Likes, "all", r))
                  /\ get_items(Likes, "all", r) = Unreviewed(Likes, r)

\* a session in mode "all" presents two items, one tagged AI/LLM and one not
C16_Witness ==
    /\ pc = "review"
    /\ state.mode = "all"
    /\ Len(items) = 2
    /\ AI_LLM \in data.items[items[1]].tags
    /\ AI_LLM \notin data.items[items[2]].tags
    /\ get_items(data, "ai", reviewed) = <<items[1]>>
    /\ get_items(data, "other", reviewed) = <<items[2]>>

(* C17: the eligible list is what _get_items gives at the start of the
   session, in collection order; while the session goes on the list stays as
   it is whatever the command, the position stays or advances by one, and a
   command changes no item but the one presented. *)
C17_FixedList ==
    [][/\ (StartStep /\ pc' = "review")
            => /\ items' = get_items(Likes, state'.mode, PersistedReviewed)
               /\ \A p, q \in 1..Len(items') : p < q => items'[p] < items'[q]
       /\ (pc = "review" /\ pc' = "review")
            => /\ items' = items
               /\ pos' \in {pos, pos + 1}
       /\ Prompted
            => \A i \in 1..Len(data.items) :
                  i # items[pos + 1] => ItemsAfter[i] = data.items[i]]_vars

\* the first of two items was kept or removed: computed now, the list would
\* have lost it, and the session still holds both
C17_Witness ==
    /\ pc = "review"
    /\ pos = 1
    /\ Len(items) = 2
    /\ data.items[items[1]].id \in reviewed
    /\ get_items(data, state.mode, reviewed) = <<items[2]>>

(* C18: the ids kept or removed in a session that completes are in the
   persisted reviewed_ids, which lose no id afterwards; a session of any mode
   presents no item whose id is in the persisted reviewed_ids; and after quit
   the items from the presented one onwards are not in the persisted
   reviewed_ids, so they are eligible again in mode "all" and in the mode of
   the session. *)
C18_Resumption ==
    [][/\ PersistedReviewed \subseteq PersistedReviewed'
       /\ (Prompted /\ pc' = "idle")
            => /\ reviewed \subseteq PersistedReviewed'
               /\ cmd' \in {K, KEEP, <<>>, R, REMOVE}
                     => data.items[items[pos + 1]].id \in PersistedReviewed'
       /\ (StartStep /\ pc' = "review")
            => \A p \in 1..Len(items') :
                  data'.items[items'[p]].id \notin PersistedReviewed
       /\ (Prompted /\ cmd' \in {Q, QUIT})
            => \A p \in (pos + 1)..Len(items) :
                  LET it == Likes'.items[items[p]]
                  IN  /\ it.id \notin PersistedReviewed'
                      /\ Eligible(it, "all", PersistedReviewed')
                      /\ Eligible(it, state.mode, PersistedReviewed')]_vars

\* after a session in mode "ai" that kept n1, a session in mode "all"
\* presents the other item only
C18_Witness ==
    /\ pc = "review"
    /\ state.mode = "all"
    /\ state_file.exists
    /\ state_file.state.mode = "ai"
    /\ PersistedReviewed = {N1}
    /\ Len(data.items) = 2
    /\ data.items[1].id = N1
    /\ items = <<2>>

-----------------------------------------------------------------------------
(* extract_papers, under Spec *)

\* the indices extract_papers processes in a collection
AiIdx(db) == {i \in 1..Len(db.items) : IsAiItem(db.items[i])}

(* C19: no operation takes papers_extracted back; a run of extract_papers
   sets it on every item it processes, whatever the outcome, and leaves every
   item that already had it exactly as it was. *)
C19_OneShot ==
    [][/\ \A i \in 1..Len(Likes.items) :
             Likes.items[i].papers_extracted => Likes'.items[i].papers_extracted
       /\ Ran("extract-papers")
            => \A i \in 1..Len(Likes.items) :
                 /\ i \in AiIdx(Likes)
                       => /\ Likes'.items[i].papers_extracted
                          /\ Likes'.items[i].paper_status # "absent"
                 /\ Likes.items[i].papers_extracted
                       => Likes'.items[i] = Likes.items[i]]_vars

\* extract_papers was the fourth command, and an item whose page did not
\* look like a paper has the flag
C19_Witness ==
    /\ command = "extract-papers"
    /\ steps = 4
    /\ \E i \in 1..Len(Likes.items) :
          /\ Likes.items[i].papers_extracted
          /\ Likes.items[i].paper_status = "insight"

\* the four outcomes, "needs_vision" being the code's name for
\* needs_visual_review
Outcomes == {"extracted", "needs_vision", "no_id_found", "insight"}

\* an identifier was found in the page's text or returned by the lookup
Resolved(page, lookup) ==
    \/ page.arxiv_ids # {}
    \/ \E k \in 1..Len(page.paper_titles) : lookup[page.paper_titles[k]] # <<>>

(* C20: each processed item gets one of the four outcomes; "extracted" only
   when an identifier was found in the text or returned by the lookup; a page
   that looks like a paper with no identifier resolved gives "needs_vision"
   when it has images and a short text and "no_id_found" otherwise; a page
   that does not look like a paper gives "insight". *)
C20_Outcome ==
    [][Ran("extract-papers")
        => \A lookup \in Lookups : \A pages \in [AiIdx(Likes) -> Pages] :
             (AiIdx(Likes) # {} /\ Likes' = extract_papers(Likes, pages, lookup))
                => \A i \in AiIdx(Likes) :
                     LET page == pages[i]
                         looks == extract_paper_info(page).is_paper
                         status == Likes'.items[i].paper_status
                     IN  /\ status \in Outcomes
                         /\ status = "extracted" => Resolved(page, lookup)
                         /\ (looks /\ ~Resolved(page, lookup))
                               => status = IF page.image_count > 0
                                               /\ page.length < TextShort
                                            THEN "needs_vision" ELSE "no_id_found"
                         /\ ~looks => status = "insight"]_vars

-----------------------------------------------------------------------------
(* errors *)

(* C21: tag_item and unlike_post called with an id that no item of the
   persisted collection has print the not-found message and leave the
   collection file exactly as it was. *)
C21_NotFound ==
    [][((Ran("tag_item") \/ Ran("unlike"))
            /\ \A i \in 1..Len(Likes.items) : Likes.items[i].id # item_id')
        => /\ likes_file' = likes_file
           /\ Likes' = Likes
           /\ printed' = "Item not found"]_vars

\* unlike_post has just been called with the id of no item, on a collection
\* that has an item
C21_Witness ==
    /\ command = "unlike"
    /\ printed = "Item not found"
    /\ Likes.items # <<>>
    /\ \A i \in 1..Len(Likes.items) : Likes.items[i].id # item_id

(* C22: load_db of a missing file returns the empty collection with no
   last_fetch; while the collection file holds text that json.loads rejects,
   every command (fetch, tag, tag_item, unlike, extract-papers, review) ends
   without changing that file, and review starts no session and writes no
   state. *)
C22_LoadErrors ==
    [][/\ ~likes_file.exists
            => CanLoad(likes_file) /\ load_db(likes_file) = EmptyDb
                  /\ load_db(likes_file).last_fetch = NoTime
       /\ ~CanLoad(likes_file)
            => /\ likes_file' = likes_file
               /\ pc' = "idle"
               /\ state_file' = state_file
               /\ printed' = "none"]_vars

\* four commands have run on a file cut short after its first item, the last
\* of them unlike_post
C22_Witness ==
    /\ likes_file.exists
    /\ Len(likes_file.text) = 2
    /\ ~CanLoad(likes_file)
    /\ command = "unlike"
    /\ item_id # <<>>
    /\ steps = 4

-----------------------------------------------------------------------------
(* the merge pass, under Spec *)

(* C23: a merge pass leaves every item that was in the collection exactly as
   it was, field for field, also when the capture holds a record with the same
   id and other values. *)
C23_AdditiveOnly ==
    [][Ran("fetch")
        => /\ Len(Likes'.items) >= Len(Likes.items)
           /\ \A i \in 1..Len(Likes.items) : Likes'.items[i] = Likes.items[i]]_vars

\* the capture of the last fetch held a record with the id of an item that an
\* earlier fetch had stored, under another title
C23_Witness ==
    /\ command = "fetch"
    /\ \E i \in 1..Len(Likes.items), k \in 1..Len(notes) :
          /\ notes[k].note_id = Likes.items[i].id
          /\ DisplayTitle(notes[k]) # Likes.items[i].title
          /\ Likes.items[i].first_seen < Likes.last_fetch

(* C24: after a merge pass the persisted last_fetch is the timestamp of the
   pass, whether or not it appended an item; no other step changes
   last_fetch. *)
C24_LastFetch ==
    [][/\ Ran("fetch") => Likes'.last_fetch = now_cn
       /\ ~Ran("fetch") => Likes'.last_fetch = Likes.last_fetch]_vars

\* a fetch at time 2 appended nothing to a collection fetched at time 1
C24_Witness ==
    /\ command = "fetch"
    /\ new = 0
    /\ Likes.last_fetch = 2
    /\ Likes.items # <<>>
    /\ \A i \in 1..Len(Likes.items) : Likes.items[i].first_seen = 1

\* the index of the first record of a capture with this id
FirstWith(raw, id) ==
    CHOOSE i \in 1..Len(raw) :
        /\ raw[i].note_id = id
        /\ \A j \in 1..(i - 1) : raw[j].note_id # id

\* out holds, for each non-empty id of raw, the first record with that id and
\* no other record, in the order of these first records in raw
FirstOccurrences(raw, out) ==
    /\ {out[k].note_id : k \in 1..Len(out)}
          = {raw[i].note_id : i \in 1..Len(raw)} \ {<<>>}
    /\ \A k \in 1..Len(out) : out[k] = raw[FirstWith(raw, out[k].note_id)]
    /\ \A k, l \in 1..Len(out) :
          k < l => FirstWith(raw, out[k].note_id) < FirstWith(raw, out[l].note_id)

(* C25: whatever records were captured, the deduplication of _fetch_by_tab
   returns one record for each distinct non-empty id, the first captured with
   that id, in the order of first capture, and no record without an id. *)
C25_Deduplication ==
    [][Ran("fetch")
        => \A raw \in RawStreams :
             notes' = Deduplicate(raw) => FirstOccurrences(raw, notes')]_vars

\* the last capture held two different records with one id, and the first of
\* them is what the deduplication returned
C25_Witness ==
    /\ command = "fetch"
    /\ \E raw \in RawStreams :
          /\ Len(raw) = 2
          /\ raw[1] # raw[2]
          /\ raw[1].note_id = raw[2].note_id
          /\ notes = Deduplicate(raw)
          /\ notes = <<raw[1]>>

\* the deduplicated records whose id no item of db has, in order
NotPresent(db, ns) ==
    SelectSeq(ns, LAMBDA note : \A i \in 1..Len(db.items) : db.items[i].id # note.note_id)

\* the raw record that holds nothing but this id
Bare(id) == [note_id |-> id, display_title |-> <<>>, title |-> <<>>, nickname |-> <<>>]

\* the scenario: items 1 and 2, the second tagged X, and a capture of 2 and 3
MergeScenario ==
    LET db == [items |-> <<NewItem(Bare(<<"1">>), 1),
                           [NewItem(Bare(<<"2">>), 1) EXCEPT !.tags = {<<"X">>}]>>,
               last_fetch |-> 1]
        r == process_notes(db, Deduplicate(<<Bare(<<"2">>), Bare(<<"3">>)>>), 2)
    IN  /\ IdsOf(r.db) = <<<<"1">>, <<"2">>, <<"3">>>>
        /\ SubSeq(r.db.items, 1, 2) = db.items
        /\ r.new_count = 1
        /\ r.db.last_fetch = 2

(* C26: a merge pass appends to the end of items the deduplicated records
   whose id was not present, in their order, and nothing else; the count it
   returns is the number of items appended; items 1, 2 with a capture of 2, 3
   get 3 appended and the count 1. *)
C26_MergeResult ==
    [][Ran("fetch")
        => LET old == Likes.items
               fresh == NotPresent(Likes, notes')
           IN  /\ Len(Likes'.items) = Len(old) + Len(fresh)
               /\ SubSeq(Likes'.items, 1, Len(old)) = old
               /\ \A k \in 1..Len(fresh) :
                     Likes'.items[Len(old) + k].id = fresh[k].note_id
               /\ new' = Len(Likes'.items) - Len(old)
               /\ MergeScenario]_vars

\* the last fetch captured a present and an absent id, on a collection of one
\* item: one item was appended after it and the count returned was 1
C26_Witness ==
    /\ command = "fetch"
    /\ Len(notes) = 2
    /\ new = 1
    /\ Len(Likes.items) = 2
    /\ Likes.items[1].id = notes[1].note_id
    /\ Likes.items[1].first_seen < Likes.items[2].first_seen
    /\ Likes.items[2].id = notes[2].note_id

\* every item of a collection has a title
AllTitled(db) == \A i \in 1..Len(db.items) : db.items[i].title # <<>>

(* C27: an item a merge pass creates has no tags, an empty desc and note, is
   neither reviewed nor removed, has first_seen = saved_at = the timestamp of
   the pass, and has a title, which is the placeholder made of the first
   characters of the id when the record brought none; every item has a title,
   in the file and in a review session, at all times. *)
C27_Defaults ==
    [][/\ Ran("fetch")
            => \A k \in (Len(Likes.items) + 1)..Len(Likes'.items) :
                 LET it == Likes'.items[k]
                 IN  /\ it.tags = {}
                     /\ it.desc = <<>>
                     /\ it.note = <<>>
                     /\ ~it.reviewed
                     /\ ~it.removed
                     /\ it.first_seen = now_cn
                     /\ it.saved_at = now_cn
                     /\ it.title # <<>>
                     /\ \A j \in 1..Len(notes') :
                           (/\ notes'[j].note_id = it.id
                            /\ notes'[j].display_title = <<>>
                            /\ notes'[j].title = <<>>)
                              => it.title = Placeholder(it.id)
       /\ AllTitled(Likes) /\ AllTitled(Likes')
       /\ AllTitled(data) /\ AllTitled(data')]_vars

\* the last fetch created an item from a record that had no title
C27_Witness ==
    /\ command = "fetch"
    /\ new >= 1
    /\ \E i \in 1..Len(Likes.items), j \in 1..Len(notes) :
          /\ notes[j].note_id = Likes.items[i].id
          /\ notes[j].display_title = <<>>
          /\ notes[j].title = <<>>
          /\ Likes.items[i].first_seen = Likes.last_fetch
          /\ Likes.items[i].title = Placeholder(Likes.items[i].id)

\* the items of db keep their places, their ids and their first_seen in db2
SameIdentity(db, db2) ==
    \A i \in 1..Len(db.items) :
        /\ i <= Len(db2.items)
        /\ db2.items[i].id = db.items[i].id
        /\ db2.items[i].first_seen = db.items[i].first_seen

(* C28: no step changes the id or the first_seen of an item: not in the file,
   not in the collection a review session holds, and not between the two when
   a session loads or saves. *)
C28_Identity ==
    [][/\ SameIdentity(Likes, Likes')
       /\ (pc = "review" /\ pc' = "review") => SameIdentity(data, data')
       /\ (pc = "idle" /\ pc' = "review") => SameIdentity(Likes, data')
       /\ (pc = "review" /\ pc' = "idle") => SameIdentity(data, Likes')]_vars

\* an item first seen at time 1 was unliked at time 2, as the fourth command
C28_Witness ==
    /\ command = "unlike"
    /\ steps = 4
    /\ \E i \in 1..Len(Likes.items) :
          /\ Likes.items[i].id = item_id
          /\ Likes.items[i].removed
          /\ Likes.items[i].removed_at = 2
          /\ Likes.items[i].first_seen = 1

-----------------------------------------------------------------------------
(* the lookups of extract_papers, under Spec *)

\* the calls of the run made for item i, in order
CallsFor(log, i) == SelectSeq(log, LAMBDA c : c.item = i)

\* the titles of a sequence of calls
TitlesOf(log) == [k \in 1..Len(log) |-> log[k].title]

\* two consecutive calls are at least the configured delay apart
Spaced(log) == \A k \in 1..(Len(log) - 1) : log[k + 1].at - log[k].at >= RateLimit

\* a run of extract_papers over these pages with these lookup results has
\* just been made
RanExtract(pages, lookup) ==
    /\ Ran("extract-papers")
    /\ AiIdx(Likes) # {}
    /\ Likes' = extract_papers(Likes, pages, lookup)
    /\ calls' = search_calls(Likes, pages)

(* C29 as stated: no lookup for an item whose text holds an identifier; for an
   item with candidate titles only, one lookup for each candidate title; two
   consecutive lookups at least the configured delay apart; every identifier
   returned is among the item's identifiers. *)
C29_AsClaimed ==
    [][\A lookup \in Lookups : \A pages \in [AiIdx(Likes) -> Pages] :
         RanExtract(pages, lookup)
            => /\ Spaced(calls')
               /\ \A i \in AiIdx(Likes) :
                     LET page == pages[i]
                         mine == CallsFor(calls', i)
                     IN  /\ page.arxiv_ids # {} => mine = <<>>
                         /\ page.arxiv_ids = {}
                               => \A t \in Range(page.paper_titles) :
                                    /\ Cardinality({k \in 1..Len(mine) :
                                                       mine[k].title = t}) = 1
                                    /\ \A j \in 1..Len(lookup[t]) :
                                          [id |-> lookup[t][j].id]
                                             \in Likes'.items[i].arxiv_ids]_vars

(* C29: no lookup for an item whose text holds an identifier; for an item
   with candidate titles only, one lookup for each of the first two candidate
   titles, in their order, and none for a further title; two consecutive
   lookups of a run at least the configured delay apart; the item's
   identifiers are those of the text and every identifier the lookups
   returned, without its version suffix. *)
C29_Lookup ==
    [][\A lookup \in Lookups : \A pages \in [AiIdx(Likes) -> Pages] :
         RanExtract(pages, lookup)
            => /\ Spaced(calls')
               /\ \A k \in 1..Len(calls') : calls'[k].item \in AiIdx(Likes)
               /\ \A i \in AiIdx(Likes) :
                     LET page == pages[i]
                         mine == CallsFor(calls', i)
                         n == IF Len(page.paper_titles) < TitlesSearched
                              THEN Len(page.paper_titles) ELSE TitlesSearched
                     IN  /\ page.arxiv_ids # {}
                               => /\ mine = <<>>
                                  /\ Likes'.items[i].arxiv_ids = page.arxiv_ids
                         /\ page.arxiv_ids = {}
                               => /\ TitlesOf(mine) = SubSeq(page.paper_titles, 1, n)
                                  /\ Likes'.items[i].arxiv_ids
                                       = UNION {{StripVersion(lookup[mine[k].title][j]) :
                                                   j \in 1..Len(lookup[mine[k].title])} :
                                                k \in 1..Len(mine)}]_vars

\* the last run looked up two titles for each of two items, one second apart,
\* and an item got the identifier returned for its first title
C29_Witness ==
    /\ command = "extract-papers"
    /\ Len(calls) = 4
    /\ calls[1].item # calls[4].item
    /\ TitlesOf(calls) = <<"T1", "T2", "T1", "T2">>
    /\ calls[4].at = 3 * RateLimit
    /\ \E i \in 1..Len(Likes.items) :
          Likes.items[i].arxiv_ids = {[id |-> "2401.00002"]}

-----------------------------------------------------------------------------
(* the session state file, under SpecReview *)

(* C30: when an invocation of review has returned, be it the first and be
   there no eligible item, the state file exists and holds the session_start
   of an invocation; a state file that exists is never deleted. *)
C30_StateCreated ==
    [][/\ (StartStep /\ pc' = "idle")
            => /\ state_file'.exists
               /\ state_file'.state.mode \in Modes
               /\ state_file'.state.session_start = now_cn
       /\ (Prompted /\ pc' = "idle")
            => /\ state_file'.exists
               /\ state_file'.state.mode = state.mode
               /\ state_file'.state.session_start = state.session_start
       /\ state_file.exists => state_file'.exists]_vars

-----------------------------------------------------------------------------
(* the reviewed flag and the reviewed set, under Spec *)

(* C31: when review is called, no item that the collection file holds with
   reviewed = true is in the list of the session, whether a review session or
   unlike_post set the flag. *)
C31_ReviewedNotEligible ==
    [][(StartStep /\ pc' = "review")
        => \A k \in 1..Len(items') : ~Likes.items[items'[k]].reviewed]_vars

(* C32: whatever commands have run, every id in the reviewed_ids of the state
   file is the id of an item of the collection file, and that item has
   reviewed = true. *)
C32_ReviewedIdsFlagged ==
    \A id \in PersistedReviewed :
        \E i \in 1..Len(Likes.items) :
            /\ Likes.items[i].id = id
            /\ Likes.items[i].reviewed

\* a session has saved a kept item, and a command other than review was the
\* last to run
C32_Witness ==
    /\ pc = "idle"
    /\ command \in {"fetch", "tag", "tag_item", "unlike", "extract-papers"}
    /\ \E i \in 1..Len(Likes.items) :
          /\ Likes.items[i].id \in PersistedReviewed
          /\ Likes.items[i].reviewed
          /\ ~Likes.items[i].removed

\* every removed item of db is reviewed and has a removed_at
RemovedWellFormed(db) ==
    \A i \in 1..Len(db.items) :
        db.items[i].removed
            => /\ db.items[i].reviewed
               /\ db.items[i].removed_at # NoTime

\* the items of db are in db2, none of them with reviewed or removed taken back
FlagsKept(db, db2) ==
    \A i \in 1..Len(db.items) :
        /\ i <= Len(db2.items)
        /\ db.items[i].reviewed => db2.items[i].reviewed
        /\ db.items[i].removed => db2.items[i].removed

(* C33: in the collection file and in the collection a review session holds,
   a removed item is reviewed and has a removed_at; no step takes reviewed or
   removed back from true to false, in the file, in a session, or between the
   two when a session loads or saves. *)
C33_RemovedImpliesReviewed ==
    [][/\ RemovedWellFormed(Likes) /\ RemovedWellFormed(Likes')
       /\ RemovedWellFormed(data) /\ RemovedWellFormed(data')
       /\ FlagsKept(Likes, Likes')
       /\ (pc = "review" /\ pc' = "review") => FlagsKept(data, data')
       /\ (pc = "idle" /\ pc' = "review") => FlagsKept(Likes, data')
       /\ (pc = "review" /\ pc' = "idle" /\ Prompted) => FlagsKept(data, Likes')]_vars

\* an item was unliked, and a review session that is still going on has
\* removed another item later
C33_Witness ==
    /\ pc = "review"
    /\ \E i, j \in 1..Len(data.items) :
          /\ data.items[i].removed
          /\ data.items[i].id \notin reviewed
          /\ Likes.items[i].removed
          /\ data.items[j].removed
          /\ data.items[j].id \in reviewed
          /\ ~Likes.items[j].removed
          /\ data.items[j].removed_at > data.items[i].removed_at

-----------------------------------------------------------------------------
(* the end of a review session, under SpecSession *)

(* C34: in a session the position never goes back and never passes the length
   of the list; no line is read once the last item of the list has been
   passed; a session ends only by quit or by passing the last item, and then
   both files have been written; and when every presented item is answered in
   the end with keep, remove, skip or quit, whatever was typed before, the
   session ends. *)
C34_Termination ==
    /\ [][pc = "review"
            => /\ pos' >= pos
               /\ pos' <= Len(items)
               /\ pc' = "review" => items' = items /\ pos' < Len(items)
               /\ pc' = "idle"
                     => /\ cmd' \in {Q, QUIT} \/ pos' = Len(items)
                        /\ state_file'.exists
                        /\ reviewed \subseteq PersistedReviewed'
                        /\ likes_file'.exists
                        /\ IdsOf(Likes') = IdsOf(data)]_vars
    /\ [](pc = "review" => pos < Len(items))
    /\ (pc = "review") ~> (pc = "idle")

\* a session over two items has ended by passing the second, after a tag was
\* typed in it
C34_Witness ==
    /\ pc = "idle"
    /\ command = "review"
    /\ pos = 2
    /\ state_file.exists
    /\ \E i \in 1..Len(Likes.items) : <<"x">> \in Likes.items[i].tags

====
